---- MODULE Spec2Model ----
(***************************************************************************)
(* A model of the clutch scraping pipeline:                                *)
(*   - the resumable batch runner of clutch_profile_scraper.py             *)
(*     (main, scrape_multiple_profiles, scrape_profile, save_results),     *)
(*   - the retrying sitemap fetch of bulk_sitemap_processor.py             *)
(*     (fetch_sitemap_with_retry),                                         *)
(*   - the transport choice of ClutchProfileScraper                        *)
(*     (__init__, setup_selenium, get_page_content).                       *)
(* Each part has its own specification over the shared variables; the      *)
(* variables of the other parts stay at their idle values.                 *)
(***************************************************************************)
EXTENDS Integers, Sequences, FiniteSets, TLC

\* ------------------------------------------------------------------ bounds
\* longest input URL list
MaxUrls == 3
\* largest --batch-size tried
MaxBatchSize == 2
\* how many times the process is started again after it ended or was killed
MaxRestarts == 2
\* longest record list the output file holds before the first run
MaxPrior == 1

\* the profile URLs of the model
Urls == {"u1", "u2"}

\* ------------------------------------------------------------- batch state
VARIABLES
    all_urls,      \* main: the lines of --batch-file
    batch_size,    \* main: args.batch_size
    has_dir,       \* whether args.output has a directory part (os.path.dirname # '')
    file,          \* the output file: [state, recs]
    results,       \* scrape_multiple_profiles: the in-memory ledger
    pc,            \* position of the process
    chunk,         \* main: the offset i of the current sub-batch (0-based)
    idx,           \* scrape_multiple_profiles: enumerate index i (1-based)
    last_fetch,    \* what get_page_content returned for the URL in hand
    nfetch,        \* number of get_page_content calls of this process
    save_errors,   \* number of "Error saving results" lines this process logged
    restarts,      \* number of times the process was started again
    fetched,       \* the URLs this process called scrape_profile for, in order
    delay,         \* main: args.delay
    since_fetch,   \* the time.sleep calls of this process since its last fetch
    gap            \* those that lay between its last fetch and the one before

batchVars == <<all_urls, batch_size, has_dir, file, results, pc, chunk, idx,
               last_fetch, nfetch, save_errors, restarts, fetched, delay,
               since_fetch, gap>>

\* ------------------------------------------------------------- retry state
VARIABLES
    max_retries,   \* fetch_sitemap_with_retry: the parameter
    attempt,       \* the loop variable of range(max_retries)
    rpc,           \* "loop" | "returned"
    ret,           \* the value returned: "text" or "None"
    requests_made, \* number of session.get calls
    headers_used,  \* the index into headers_list of every request, in order
    sleeps,        \* the argument of every time.sleep, in order
    response       \* the responses in hand: <<>> before the first request, then <<r>>

retryVars == <<max_retries, attempt, rpc, ret, requests_made, headers_used, sleeps,
               response>>

\* ----------------------------------------------------------- fetcher state
VARIABLES
    use_selenium,  \* ClutchProfileScraper.use_selenium
    driver,        \* ClutchProfileScraper.driver: "None" | "chrome"
    session,       \* ClutchProfileScraper.session: "None" | "session"
    fpc,           \* "new" (before __init__) | "ready"
    calls          \* the get_page_content calls made: [url, tried, result]

fetchVars == <<use_selenium, driver, session, fpc, calls>>

\* ----------------------------------------------------------- sitemap state
VARIABLES
    web,                  \* what every sitemap source holds when it is fetched or read
    sitemap_sources,      \* process_multiple_sitemaps: the parameter
    spos,                 \* process_multiple_sitemaps: enumerate index i (1-based)
    spc,                  \* "loop" | "done"
    sm_all_urls,          \* process_multiple_sitemaps: all_urls
    failed_sitemaps,      \* BulkSitemapProcessor.failed_sitemaps
    success_count,        \* BulkSitemapProcessor.success_count
    total_urls_extracted, \* BulkSitemapProcessor.total_urls_extracted
    child_refs,           \* the child sitemaps parse_sitemap_xml reported
    processed,            \* the sources process_single_sitemap was called for, in order
    last_urls             \* what process_single_sitemap returned last

sitemapVars == <<web, sitemap_sources, spos, spc, sm_all_urls, failed_sitemaps,
                 success_count, total_urls_extracted, child_refs, processed,
                 last_urls>>

\* ----------------------------------------------------------- extraction state
VARIABLES
    ex_url,               \* extract_company_info: url, as url.split('/') sees it
    epc,                  \* the field extract_company_info comes to next
    page,                 \* what soup.select_one gives for each selector of the
                          \* field extracted last
    company_data          \* extract_company_info: company_data

extractVars == <<ex_url, epc, page, company_data>>

\* ------------------------------------------------------------- services state
VARIABLES
    variant,              \* "profile": ClutchProfileScraper, "simple": SimpleClutchScraper
    matches,              \* re.findall of the two patterns, one list after the other
    mpos,                 \* the match the loop comes to next (1-based)
    services,             \* _extract_services: services
    vpc                   \* "loop" | "done"

servicesVars == <<variant, matches, mpos, services, vpc>>

\* ------------------------------------------------------- social links state
VARIABLES
    links,                \* the href of every <a> of the page, in document order
    ppos,                 \* the entry of social_platforms the loop comes to next
    social_media          \* _extract_social_media: social_media

socialVars == <<links, ppos, social_media>>

vars ==
    <<batchVars, retryVars, fetchVars, sitemapVars, extractVars, servicesVars,
      socialVars>>

notBatchVars ==
    <<retryVars, fetchVars, sitemapVars, extractVars, servicesVars, socialVars>>

notRetryVars ==
    <<batchVars, fetchVars, sitemapVars, extractVars, servicesVars, socialVars>>

notFetchVars ==
    <<batchVars, retryVars, sitemapVars, extractVars, servicesVars, socialVars>>

notSitemapVars ==
    <<batchVars, retryVars, fetchVars, extractVars, servicesVars, socialVars>>

notExtractVars ==
    <<batchVars, retryVars, fetchVars, sitemapVars, servicesVars, socialVars>>

notServicesVars ==
    <<batchVars, retryVars, fetchVars, sitemapVars, extractVars, socialVars>>

notSocialVars ==
    <<batchVars, retryVars, fetchVars, sitemapVars, extractVars, servicesVars>>

\* ---------------------------------------------------------------- helpers
Range(s) == {s[i] : i \in DOMAIN s}

IsPrefix(s, t) == Len(s) <= Len(t) /\ \A i \in 1..Len(s) : s[i] = t[i]

SeqsUpTo(S, n) == UNION {[1..k -> S] : k \in 0..n}

NoDupUrl(recs) == \A i, j \in DOMAIN recs : recs[i].url = recs[j].url => i = j

Min(a, b) == IF a < b THEN a ELSE b

\* ================================================================= batch

\* a record of the ledger: company_data (kind "data") or
\* {'error': ..., 'url': url} (kind "error")
Record == [url : Urls, kind : {"data", "error"}]

\* what get_page_content hands to scrape_profile: None, '' or a page
Contents == {"None", "empty", "html"}

\* a scrape_profile that takes a failed fetch for a page
scrape_profile_no_placeholder(url, content) == [url |-> url, kind |-> "data"]

\* scrape_profile, lines 382-392: no content, or empty content, gives the
\* error placeholder; otherwise extract_company_info's dict, whose 'url' is url
scrape_profile(url, content) ==
    IF content \in {"None", "empty"}
    THEN [url |-> url, kind |-> "error"]
    ELSE [url |-> url, kind |-> "data"]

\* a batch loop without the check of line 412
already_processed_never(res, url) == FALSE

\* scrape_multiple_profiles, line 412: any(r.get('url') == url for r in results)
already_processed(res, url) == \E i \in DOMAIN res : res[i].url = url

\* a batch that does not read the output file back
load_existing_nothing(f) == <<>>

\* scrape_multiple_profiles, lines 396-406: the ledger starts empty, and is
\* replaced by the file's list when the file exists and json.load succeeds;
\* a file that was cut short does not parse and leaves the ledger empty
load_existing(f) == IF f.state = "ok" THEN f.recs ELSE <<>>

\* the files an interrupted or failed json.dump can leave behind: open(..., 'w')
\* has truncated the file and only the first k records reached it
CutShort(res) == {[state |-> "partial", recs |-> SubSeq(res, 1, k)] : k \in 0..Len(res)}

\* save_results, lines 432-447, run to its end: the set of [file, raised].
\* os.makedirs(os.path.dirname(output_file)) raises for a path with no
\* directory part; open or json.dump may raise; every exception is caught and
\* logged, so the call always returns
save_results(res, f) ==
    IF ~has_dir
    THEN {[file |-> f, raised |-> TRUE]}
    ELSE {[file |-> [state |-> "ok", recs |-> res], raised |-> FALSE]}
         \cup {[file |-> f, raised |-> TRUE]}
         \cup {[file |-> g, raised |-> TRUE] : g \in CutShort(res)}

\* main, line 462: --delay, default=2.0
DefaultDelay == 2

\* main, line 502: delay = 10, the seconds between sub-batches
BatchDelay == 10

\* scrape_multiple_profiles, lines 426-428: time.sleep(delay)
url_wait(d) == [kind |-> "url", secs |-> d]

\* main, lines 501-504: time.sleep(10)
batch_wait == [kind |-> "batch", secs |-> BatchDelay]

\* main, line 493: all_urls[i:i + args.batch_size]
batch_urls == SubSeq(all_urls, chunk + 1, Min(chunk + batch_size, Len(all_urls)))

CurUrl == batch_urls[idx]

BatchInit ==
    /\ all_urls \in SeqsUpTo(Urls, MaxUrls)
    /\ batch_size \in 1..MaxBatchSize
    /\ has_dir \in BOOLEAN
    /\ file \in {[state |-> "absent", recs |-> <<>>]}
            \cup {[state |-> "ok", recs |-> r] :
                    r \in {s \in SeqsUpTo(Record, MaxPrior) : NoDupUrl(s)}}
    /\ results = <<>>
    /\ pc = "main"
    /\ chunk = 0
    /\ idx = 1
    /\ last_fetch = "none"
    /\ nfetch = 0
    /\ save_errors = 0
    /\ restarts = 0
    /\ fetched = <<>>
    /\ delay = DefaultDelay
    /\ since_fetch = <<>>
    /\ gap = <<>>

\* the same with --delay given: the default, or more than the seconds between
\* sub-batches
PacingInit ==
    /\ all_urls \in SeqsUpTo(Urls, MaxUrls)
    /\ batch_size \in 1..MaxBatchSize
    /\ has_dir \in BOOLEAN
    /\ file \in {[state |-> "absent", recs |-> <<>>]}
            \cup {[state |-> "ok", recs |-> r] :
                    r \in {s \in SeqsUpTo(Record, MaxPrior) : NoDupUrl(s)}}
    /\ results = <<>>
    /\ pc = "main"
    /\ chunk = 0
    /\ idx = 1
    /\ last_fetch = "none"
    /\ nfetch = 0
    /\ save_errors = 0
    /\ restarts = 0
    /\ fetched = <<>>
    /\ delay \in {DefaultDelay, BatchDelay + 5}
    /\ since_fetch = <<>>
    /\ gap = <<>>

BatchIdle ==
    /\ all_urls = <<>>
    /\ batch_size = 1
    /\ has_dir = TRUE
    /\ file = [state |-> "absent", recs |-> <<>>]
    /\ results = <<>>
    /\ pc = "idle"
    /\ chunk = 0
    /\ idx = 1
    /\ last_fetch = "none"
    /\ nfetch = 0
    /\ save_errors = 0
    /\ restarts = 0
    /\ fetched = <<>>
    /\ delay = DefaultDelay
    /\ since_fetch = <<>>
    /\ gap = <<>>

\* main, lines 492-497, and scrape_multiple_profiles, lines 396-406: the next
\* sub-batch is cut from the list and the ledger is loaded from the file
StartBatch ==
    /\ pc = "main"
    /\ chunk < Len(all_urls)
    /\ results' = load_existing(file)
    /\ idx' = 1
    /\ pc' = "loop"
    /\ UNCHANGED <<all_urls, batch_size, has_dir, file, chunk, last_fetch, nfetch,
                   save_errors, restarts, fetched, delay,
                   since_fetch, gap>>
    /\ UNCHANGED notBatchVars

\* scrape_multiple_profiles, lines 411-414: a URL of the ledger is skipped
\* (continue: no fetch, no save, no sleep)
SkipUrl ==
    /\ pc = "loop"
    /\ idx <= Len(batch_urls)
    /\ already_processed(results, CurUrl)
    /\ idx' = idx + 1
    /\ UNCHANGED <<all_urls, batch_size, has_dir, file, results, pc, chunk,
                   last_fetch, nfetch, save_errors, restarts, fetched, delay,
                   since_fetch, gap>>
    /\ UNCHANGED notBatchVars

\* scrape_multiple_profiles, lines 416-419: scrape_profile, then append
ScrapeUrl ==
    /\ pc = "loop"
    /\ idx <= Len(batch_urls)
    /\ ~already_processed(results, CurUrl)
    /\ \E content \in Contents :
          /\ last_fetch' = content
          /\ results' = Append(results, scrape_profile(CurUrl, content))
    /\ nfetch' = nfetch + 1
    /\ fetched' = Append(fetched, CurUrl)
    /\ gap' = since_fetch
    /\ since_fetch' = <<>>
    /\ pc' = "save"
    /\ UNCHANGED <<all_urls, batch_size, has_dir, file, chunk, idx, save_errors,
                   restarts, delay>>
    /\ UNCHANGED notBatchVars

\* scrape_multiple_profiles, lines 420-428: save_results, then the loop goes
\* on to the next URL whether or not the save raised
SaveUrl ==
    /\ pc = "save"
    /\ \E o \in save_results(results, file) :
          /\ file' = o.file
          /\ save_errors' = IF o.raised THEN save_errors + 1 ELSE save_errors
    /\ since_fetch' = IF idx < Len(batch_urls)
                      THEN Append(since_fetch, url_wait(delay))
                      ELSE since_fetch
    /\ idx' = idx + 1
    /\ pc' = "loop"
    /\ UNCHANGED <<all_urls, batch_size, has_dir, results, chunk, last_fetch,
                   nfetch, restarts, fetched, delay, gap>>
    /\ UNCHANGED notBatchVars

\* scrape_multiple_profiles, line 430: return results
EndBatch ==
    /\ pc = "loop"
    /\ idx > Len(batch_urls)
    /\ pc' = "mainsave"
    /\ UNCHANGED <<all_urls, batch_size, has_dir, file, results, chunk, idx,
                   last_fetch, nfetch, save_errors, restarts, fetched, delay,
                   since_fetch, gap>>
    /\ UNCHANGED notBatchVars

\* main, lines 498-504: the returned ledger is saved once more and the loop
\* of main moves to the next sub-batch
MainSave ==
    /\ pc = "mainsave"
    /\ \E o \in save_results(results, file) :
          /\ file' = o.file
          /\ save_errors' = IF o.raised THEN save_errors + 1 ELSE save_errors
    /\ since_fetch' = IF chunk + batch_size < Len(all_urls)
                      THEN Append(since_fetch, batch_wait)
                      ELSE since_fetch
    /\ chunk' = chunk + batch_size
    /\ pc' = "main"
    /\ UNCHANGED <<all_urls, batch_size, has_dir, results, idx, last_fetch,
                   nfetch, restarts, fetched, delay, gap>>
    /\ UNCHANGED notBatchVars

\* main, line 492: range(0, total_urls, batch_size) is exhausted
MainExit ==
    /\ pc = "main"
    /\ chunk >= Len(all_urls)
    /\ pc' = "done"
    /\ UNCHANGED <<all_urls, batch_size, has_dir, file, results, chunk, idx,
                   last_fetch, nfetch, save_errors, restarts, fetched, delay,
                   since_fetch, gap>>
    /\ UNCHANGED notBatchVars

\* KeyboardInterrupt (or a kill) outside a write: it is no Exception, so no
\* handler of lines 423, 446 or 505 catches it and the process ends
Interrupt ==
    /\ pc \in {"main", "loop", "save", "mainsave"}
    /\ pc' = "interrupted"
    /\ UNCHANGED <<all_urls, batch_size, has_dir, file, results, chunk, idx,
                   last_fetch, nfetch, save_errors, restarts, fetched, delay,
                   since_fetch, gap>>
    /\ UNCHANGED notBatchVars

\* the same inside save_results, lines 442-443: open(..., 'w') has emptied the
\* file and json.dump has written only part of the list
InterruptSave ==
    /\ pc \in {"save", "mainsave"}
    /\ has_dir
    /\ file' \in CutShort(results)
    /\ pc' = "interrupted"
    /\ UNCHANGED <<all_urls, batch_size, has_dir, results, chunk, idx,
                   last_fetch, nfetch, save_errors, restarts, fetched, delay,
                   since_fetch, gap>>
    /\ UNCHANGED notBatchVars

\* the operator runs the same command again: a new process, the same list,
\* the same output file
Restart ==
    /\ pc \in {"interrupted", "done"}
    /\ restarts < MaxRestarts
    /\ restarts' = restarts + 1
    /\ pc' = "main"
    /\ chunk' = 0
    /\ idx' = 1
    /\ results' = <<>>
    /\ last_fetch' = "none"
    /\ nfetch' = 0
    /\ save_errors' = 0
    /\ fetched' = <<>>
    /\ since_fetch' = <<>>
    /\ gap' = <<>>
    /\ UNCHANGED <<all_urls, batch_size, has_dir, file, delay>>
    /\ UNCHANGED notBatchVars

\* ------------------------------------------------------------ single URL

\* main, lines 481-485, --url given: all_urls holds that one URL; the output
\* file may be missing, hold a list, or hold something json.load rejects
SingleInit ==
    /\ all_urls \in {<<u>> : u \in Urls}
    /\ batch_size = 1
    /\ has_dir \in BOOLEAN
    /\ file \in {[state |-> "absent", recs |-> <<>>]}
            \cup {[state |-> "ok", recs |-> r] :
                    r \in {q \in SeqsUpTo(Record, MaxPrior) : NoDupUrl(q)}}
            \cup {[state |-> "partial", recs |-> r] :
                    r \in {q \in SeqsUpTo(Record, MaxPrior) : NoDupUrl(q)}}
    /\ results = <<>>
    /\ pc = "single"
    /\ chunk = 0
    /\ idx = 1
    /\ last_fetch = "none"
    /\ nfetch = 0
    /\ save_errors = 0
    /\ restarts = 0
    /\ fetched = <<>>
    /\ delay = DefaultDelay
    /\ since_fetch = <<>>
    /\ gap = <<>>

\* main, line 483: result = scraper.scrape_profile(args.url); nothing is
\* loaded from the output file
SingleScrape ==
    /\ pc = "single"
    /\ \E content \in Contents :
          /\ last_fetch' = content
          /\ results' = <<scrape_profile(all_urls[1], content)>>
    /\ nfetch' = nfetch + 1
    /\ fetched' = Append(fetched, all_urls[1])
    /\ pc' = "singlesave"
    /\ UNCHANGED <<all_urls, batch_size, has_dir, file, chunk, idx, save_errors,
                   restarts, delay, since_fetch, gap>>
    /\ UNCHANGED notBatchVars

\* main, lines 484-485: scraper.save_results([result], args.output), and the
\* program ends
SingleSave ==
    /\ pc = "singlesave"
    /\ \E o \in save_results(results, file) :
          /\ file' = o.file
          /\ save_errors' = IF o.raised THEN save_errors + 1 ELSE save_errors
    /\ pc' = "singledone"
    /\ UNCHANGED <<all_urls, batch_size, has_dir, results, chunk, idx, last_fetch,
                   nfetch, restarts, fetched, delay, since_fetch, gap>>
    /\ UNCHANGED notBatchVars

\* ================================================================= retry

\* fetch_sitemap_with_retry, line 43: max_retries: int = 3
DefaultMaxRetries == 3
\* fetch_sitemap_with_retry, lines 45-64: len(headers_list)
HeadersPoolSize == 3
\* largest max_retries tried
MaxRetries == 4

\* what session.get can do: raise a RequestException (raised), or answer with
\* a status that raise_for_status accepts or not, a content-type that
\* contains 'xml' or not, and a body that starts with '<?xml' or not
Responses == [raised : BOOLEAN, status_ok : BOOLEAN, ctype_xml : BOOLEAN,
              body_xml : BOOLEAN]

\* lines 72-73: session.get or response.raise_for_status raises
request_failed(resp) == resp.raised \/ ~resp.status_ok

\* a validation that looks at the content-type only
is_xml_by_content_type(resp) == resp.ctype_xml

\* line 77: 'xml' in content_type or response.text.strip().startswith('<?xml')
is_xml(resp) == resp.ctype_xml \/ resp.body_xml

\* config.py, line 61: "retry_delay": 2.0 (fetch_sitemap_with_retry does not
\* read it)
RetryDelay == 2

\* a rotation that does not wrap around
header_index_no_wrap(a) == a

\* line 67: headers_list[attempt % len(headers_list)]
header_index(a) == a % HeadersPoolSize

\* lines 83 and 89: time.sleep(2 ** attempt)
backoff_delay(a) == 2 ^ a

\* lines 82 and 88: if attempt < max_retries - 1
sleeps_after(a, n) == a < n - 1

\* a loop that stops one attempt short
in_range_one_short(a, n) == a < n - 1

\* line 66: for attempt in range(max_retries)
in_range(a, n) == a < n

RetryInit ==
    /\ max_retries \in 0..MaxRetries
    /\ attempt = 0
    /\ rpc = "loop"
    /\ ret = "none"
    /\ requests_made = 0
    /\ headers_used = <<>>
    /\ sleeps = <<>>
    /\ response = <<>>

RetryIdle ==
    /\ max_retries = DefaultMaxRetries
    /\ attempt = 0
    /\ rpc = "idle"
    /\ ret = "none"
    /\ requests_made = 0
    /\ headers_used = <<>>
    /\ sleeps = <<>>
    /\ response = <<>>

\* lines 66-84, the request is answered with XML: return response.text
AttemptSucceeds ==
    /\ rpc = "loop"
    /\ in_range(attempt, max_retries)
    /\ \E resp \in Responses :
          /\ ~request_failed(resp)
          /\ is_xml(resp)
          /\ response' = <<resp>>
    /\ headers_used' = Append(headers_used, header_index(attempt))
    /\ requests_made' = requests_made + 1
    /\ ret' = "text"
    /\ rpc' = "returned"
    /\ UNCHANGED <<max_retries, attempt, sleeps>>
    /\ UNCHANGED notRetryVars

\* lines 66-90, the request raises or the content is not XML: sleep unless
\* this was the last attempt, then the next iteration
AttemptFails ==
    /\ rpc = "loop"
    /\ in_range(attempt, max_retries)
    /\ \E resp \in Responses :
          /\ request_failed(resp) \/ ~is_xml(resp)
          /\ response' = <<resp>>
    /\ headers_used' = Append(headers_used, header_index(attempt))
    /\ requests_made' = requests_made + 1
    /\ sleeps' = IF sleeps_after(attempt, max_retries)
                 THEN Append(sleeps, backoff_delay(attempt))
                 ELSE sleeps
    /\ attempt' = attempt + 1
    /\ UNCHANGED <<max_retries, rpc, ret>>
    /\ UNCHANGED notRetryVars

\* line 91: the range is exhausted, return None
ReturnNone ==
    /\ rpc = "loop"
    /\ ~in_range(attempt, max_retries)
    /\ ret' = "None"
    /\ rpc' = "returned"
    /\ UNCHANGED <<max_retries, attempt, requests_made, headers_used, sleeps,
                   response>>
    /\ UNCHANGED notRetryVars

\* =============================================================== fetcher

\* most get_page_content calls followed
MaxCalls == 3

\* a fetcher that never uses the driver
select_transport_static(use_sel, drv) == "static"

\* line 100: if self.use_selenium and self.driver
select_transport(use_sel, drv) ==
    IF use_sel /\ drv # "None" THEN "rendered" ELSE "static"

\* what the transport chosen can do with one URL.  rendered: the page loads
\* ("page"), the wait of line 109 times out ("timeout", line 124 still returns
\* page_source) or the driver raises; static: the response is good ("page") or
\* session.get / raise_for_status raises
Outcomes(transport) ==
    IF transport = "rendered" THEN {"page", "timeout", "raise"}
    ELSE {"page", "raise"}

\* get_page_content, lines 97-132: one attempt on the one transport chosen;
\* any exception is caught at line 130 and None is returned
get_page_content(url, use_sel, drv, outcome) ==
    [url |-> url,
     tried |-> {select_transport(use_sel, drv)},
     result |-> IF outcome = "raise" THEN "None" ELSE "html"]

FetchInit ==
    /\ use_selenium \in BOOLEAN
    /\ driver = "None"
    /\ session = "None"
    /\ fpc = "new"
    /\ calls = <<>>

FetchIdle ==
    /\ use_selenium = FALSE
    /\ driver = "None"
    /\ session = "None"
    /\ fpc = "idle"
    /\ calls = <<>>

\* __init__, lines 48-51, with use_selenium false: setup_requests
SetupRequests ==
    /\ fpc = "new"
    /\ ~use_selenium
    /\ session' = "session"
    /\ fpc' = "ready"
    /\ UNCHANGED <<use_selenium, driver, calls>>
    /\ UNCHANGED notFetchVars

\* setup_selenium, lines 65-77: the WebDriver starts
SetupSelenium ==
    /\ fpc = "new"
    /\ use_selenium
    /\ driver' = "chrome"
    /\ fpc' = "ready"
    /\ UNCHANGED <<use_selenium, session, calls>>
    /\ UNCHANGED notFetchVars

\* setup_selenium, lines 78-82: webdriver.Chrome raises (driver stays None) or
\* a later execute_script raises (driver is set); either way the scraper
\* falls back to the requests session
SetupSeleniumFails ==
    /\ fpc = "new"
    /\ use_selenium
    /\ driver' \in {"None", "chrome"}
    /\ use_selenium' = FALSE
    /\ session' = "session"
    /\ fpc' = "ready"
    /\ UNCHANGED calls
    /\ UNCHANGED notFetchVars

\* one call of get_page_content
GetPageContent ==
    /\ fpc = "ready"
    /\ Len(calls) < MaxCalls
    /\ \E url \in Urls :
       \E outcome \in Outcomes(select_transport(use_selenium, driver)) :
          calls' = Append(calls, get_page_content(url, use_selenium, driver, outcome))
    /\ UNCHANGED <<use_selenium, driver, session, fpc>>
    /\ UNCHANGED notFetchVars

\* =============================================================== sitemaps

\* most sources in one call of process_multiple_sitemaps
MaxSources == 2

\* the sitemap sources and the page URLs of the model
Sources == {"s1", "s2", "s3"}

Pages == {"p1", "p2", "p3", "p4"}

\* a source that cannot be fetched or read (fetch_sitemap_with_retry or
\* load_local_xml returns None) or whose content is empty
Unreachable ==
    [content |-> "None", ns_urls |-> <<>>, plain_urls |-> <<>>,
     ns_refs |-> <<>>, plain_refs |-> <<>>]

\* a source whose content ET.fromstring rejects
Malformed ==
    [content |-> "malformed", ns_urls |-> <<>>, plain_urls |-> <<>>,
     ns_refs |-> <<>>, plain_refs |-> <<>>]

\* a well-formed document: the <loc> texts of its namespace-qualified and of
\* its unqualified <url> elements, and those of its <sitemap> elements
XmlDoc(nu, pu, nr, pr) ==
    [content |-> "xml", ns_urls |-> nu, plain_urls |-> pu,
     ns_refs |-> nr, plain_refs |-> pr]

\* the documents a source can hold
Docs ==
    {Unreachable,
     Malformed,
     XmlDoc(<<>>, <<>>, <<>>, <<>>),
     XmlDoc(<<"p1", "p2">>, <<>>, <<>>, <<>>),
     XmlDoc(<<"p3", "p4">>, <<>>, <<>>, <<>>),
     XmlDoc(<<"p2", "p3">>, <<>>, <<>>, <<>>),
     XmlDoc(<<>>, <<"p1", "p4">>, <<>>, <<>>),
     XmlDoc(<<"p1">>, <<"p2">>, <<>>, <<>>),
     XmlDoc(<<>>, <<>>, <<"s2", "s3">>, <<>>),
     XmlDoc(<<>>, <<>>, <<>>, <<"s1", "s2">>),
     XmlDoc(<<"p4">>, <<>>, <<"s1">>, <<>>)}

\* a parse that appends the unqualified entries to the qualified ones
parse_sitemap_xml_both_passes(doc) ==
    IF doc.content = "malformed" THEN <<>>
    ELSE doc.ns_urls \o doc.plain_urls

\* parse_sitemap_xml, lines 111-132 and 156-166: the qualified <url><loc>
\* entries, the unqualified ones only if there is no qualified one, and [] on
\* a ParseError
parse_sitemap_xml(doc) ==
    IF doc.content = "malformed" THEN <<>>
    ELSE IF doc.ns_urls # <<>> THEN doc.ns_urls
    ELSE doc.plain_urls

\* parse_sitemap_xml, lines 134-153: the child sitemaps of a sitemap index are
\* collected and printed; nothing else is done with them
sitemap_refs(doc) ==
    IF doc.content = "malformed" THEN <<>>
    ELSE IF doc.ns_refs # <<>> THEN doc.ns_refs
    ELSE doc.plain_refs

\* a process_single_sitemap that counts every source with content a success
process_single_sitemap_by_content(doc) ==
    [urls |-> IF doc.content = "None" THEN <<>> ELSE parse_sitemap_xml(doc),
     ok |-> doc.content # "None"]

\* a process_single_sitemap that does not record a failure
process_single_sitemap_silent(doc) ==
    [urls |-> IF doc.content = "None" THEN <<>> ELSE parse_sitemap_xml(doc),
     ok |-> TRUE]

\* process_single_sitemap, lines 174-190: the URLs returned, and whether the
\* source counts as a success (it gave content and at least one URL)
process_single_sitemap(doc) ==
    LET urls == IF doc.content = "None" THEN <<>> ELSE parse_sitemap_xml(doc)
    IN  [urls |-> urls, ok |-> urls # <<>>]

\* an all_urls that is overwritten by every source
update_overwrites(all, urls) == Range(urls)

\* process_multiple_sitemaps, line 203: all_urls.update(urls)
update(all, urls) == all \cup Range(urls)

SitemapInit ==
    /\ web \in [Sources -> Docs]
    /\ sitemap_sources \in SeqsUpTo(Sources, MaxSources)
    /\ spos = 1
    /\ spc = "loop"
    /\ sm_all_urls = {}
    /\ failed_sitemaps = <<>>
    /\ success_count = 0
    /\ total_urls_extracted = 0
    /\ child_refs = {}
    /\ processed = <<>>
    /\ last_urls = <<>>

SitemapIdle ==
    /\ web = [s \in Sources |-> Unreachable]
    /\ sitemap_sources = <<>>
    /\ spos = 1
    /\ spc = "idle"
    /\ sm_all_urls = {}
    /\ failed_sitemaps = <<>>
    /\ success_count = 0
    /\ total_urls_extracted = 0
    /\ child_refs = {}
    /\ processed = <<>>
    /\ last_urls = <<>>

\* process_multiple_sitemaps, lines 199-210: one iteration, with the call of
\* process_single_sitemap (lines 168-190) and of parse_sitemap_xml in it
ProcessSitemap ==
    /\ spc = "loop"
    /\ spos <= Len(sitemap_sources)
    /\ LET src == sitemap_sources[spos]
           doc == web[src]
           r == process_single_sitemap(doc)
       IN  /\ processed' = Append(processed, src)
           /\ child_refs' = IF doc.content = "None" THEN child_refs
                            ELSE child_refs \cup Range(sitemap_refs(doc))
           /\ success_count' = IF r.ok THEN success_count + 1 ELSE success_count
           /\ total_urls_extracted' =
                 IF r.ok THEN total_urls_extracted + Len(r.urls)
                 ELSE total_urls_extracted
           /\ failed_sitemaps' = IF r.ok THEN failed_sitemaps
                                 ELSE Append(failed_sitemaps, src)
           /\ sm_all_urls' = update(sm_all_urls, r.urls)
           /\ last_urls' = r.urls
    /\ spos' = spos + 1
    /\ UNCHANGED <<web, sitemap_sources, spc>>
    /\ UNCHANGED notSitemapVars

\* process_multiple_sitemaps, line 212: return all_urls
ReturnUrls ==
    /\ spc = "loop"
    /\ spos > Len(sitemap_sources)
    /\ spc' = "done"
    /\ UNCHANGED <<web, sitemap_sources, spos, sm_all_urls, failed_sitemaps,
                   success_count, total_urls_extracted, child_refs, processed,
                   last_urls>>
    /\ UNCHANGED notSitemapVars

\* ============================================================ extraction

\* most selectors of one field that find an element on a page
MaxMatches == 2

\* extract_company_info: len(name_selectors), lines 158-166
NameSelectors == 7
\* len(tagline_selectors), lines 182-190
TaglineSelectors == 7
\* len(reviews_selectors), lines 215-221
ReviewsSelectors == 5
\* len(location_selectors), lines 257-263
LocationSelectors == 5

\* A text is the sequence of its words; '' is <<>>.  A URL is the list
\* url.split('/') gives, each part being the sequence of its '-'-separated
\* pieces.
ProfileUrls ==
    {<<<<"https:">>, <<>>, <<"clutch.co">>, <<"profile">>, <<"acme", "consulting">>>>,
     <<<<"https:">>, <<>>, <<"clutch.co">>, <<"profile">>, <<"acme">>>>,
     <<<<"https:">>, <<>>, <<"clutch.co">>, <<"profile">>, <<"acme", "consulting">>, <<>>>>,
     <<<<"https:">>, <<>>, <<"clutch.co">>, <<"profile">>, <<"acme">>, <<>>>>}

\* str.title() on one word
Capitalize(w) ==
    CASE w = "acme" -> "Acme"
      [] w = "consulting" -> "Consulting"
      [] w = "profile" -> "Profile"
      [] w = "clutch.co" -> "Clutch.Co"
      [] w = "https:" -> "Https:"
      [] OTHER -> w

\* lines 176-178: url_parts[-1].replace('-', ' ').title()
name_from_url(url) ==
    LET last == url[Len(url)]
    IN  [i \in 1..Len(last) |-> Capitalize(last[i])]

\* what a selector finds: no element ("absent"), an element without text
\* ("empty"), the site's own name ("brand"), a text without '<n> review'
\* ("nomatch"), or a text of its own ("valid")
Findings(n, kinds) ==
    {v \in [1..n -> kinds \cup {"absent"}] :
        Cardinality({k \in 1..n : v[k] # "absent"}) <= MaxMatches}

\* get_text(strip=True) of the element selector k of a field finds
element_text(field, k, kind) ==
    CASE kind = "empty" -> <<>>
      [] kind = "brand" -> <<"clutch.co">>
      [] OTHER -> <<field, ToString(k)>>

\* int(review_match.group(1)) for the element selector k finds
review_number(k) == 10 + k

\* lines 168-172: the first selector whose element has a text other than ''
\* and 'clutch.co'; '' if there is none
RECURSIVE name_cascade(_, _)
name_cascade(v, k) ==
    IF k > Len(v) THEN <<>>
    ELSE IF v[k] # "absent"
            /\ element_text("name", k, v[k]) # <<>>
            /\ element_text("name", k, v[k]) # <<"clutch.co">>
         THEN element_text("name", k, v[k])
         ELSE name_cascade(v, k + 1)

\* lines 192-196 and 265-269: the text of the first selector that finds an
\* element, whatever the text; '' if none finds one
RECURSIVE first_element_text(_, _, _)
first_element_text(field, v, k) ==
    IF k > Len(v) THEN <<>>
    ELSE IF v[k] # "absent" THEN element_text(field, k, v[k])
    ELSE first_element_text(field, v, k + 1)

\* lines 223-230: the number of the first selector whose element's text holds
\* '<n> review'; 0 if there is none
RECURSIVE reviews_cascade(_, _)
reviews_cascade(v, k) ==
    IF k > Len(v) THEN 0
    ELSE IF v[k] = "valid" THEN review_number(k)
    ELSE reviews_cascade(v, k + 1)

\* lines 136-154: company_data as it is created (the fields modelled)
new_company_data(url) ==
    [url |-> url, company_name |-> <<>>, tagline |-> <<>>, reviews_count |-> 0,
     location |-> <<>>]

ExtractInit ==
    /\ ex_url \in ProfileUrls
    /\ epc = "name"
    /\ page = <<>>
    /\ company_data = new_company_data(ex_url)

ExtractIdle ==
    /\ ex_url = <<>>
    /\ epc = "idle"
    /\ page = <<>>
    /\ company_data = new_company_data(<<>>)

\* lines 157-179: the name selectors, then the fallback to the URL
ExtractName ==
    /\ epc = "name"
    /\ \E v \in Findings(NameSelectors, {"empty", "brand", "valid"}) :
          /\ page' = v
          /\ LET found == name_cascade(v, 1)
                 name == IF found = <<>> \/ found = <<"clutch.co">>
                         THEN name_from_url(ex_url) ELSE found
             IN  company_data' = [company_data EXCEPT !.company_name = name]
    /\ epc' = "tagline"
    /\ UNCHANGED ex_url
    /\ UNCHANGED notExtractVars

\* lines 181-196: the tagline selectors
ExtractTagline ==
    /\ epc = "tagline"
    /\ \E v \in Findings(TaglineSelectors, {"empty", "valid"}) :
          /\ page' = v
          /\ company_data' =
                [company_data EXCEPT !.tagline = first_element_text("tagline", v, 1)]
    /\ epc' = "reviews"
    /\ UNCHANGED ex_url
    /\ UNCHANGED notExtractVars

\* lines 214-230: the reviews selectors
ExtractReviews ==
    /\ epc = "reviews"
    /\ \E v \in Findings(ReviewsSelectors, {"nomatch", "valid"}) :
          /\ page' = v
          /\ company_data' =
                [company_data EXCEPT !.reviews_count = reviews_cascade(v, 1)]
    /\ epc' = "location"
    /\ UNCHANGED ex_url
    /\ UNCHANGED notExtractVars

\* lines 256-280: the location selectors, then return company_data
ExtractLocation ==
    /\ epc = "location"
    /\ \E v \in Findings(LocationSelectors, {"empty", "valid"}) :
          /\ page' = v
          /\ company_data' =
                [company_data EXCEPT !.location = first_element_text("location", v, 1)]
    /\ epc' = "done"
    /\ UNCHANGED ex_url
    /\ UNCHANGED notExtractVars

\* ============================================================== services

\* most matches of the two service patterns in one page text
MaxMatchCount == 11

\* SimpleClutchScraper.extract_basic_info, line 198: services[:10]
ServicesCap == 10

\* the labels of a match: one that line 192 of the simple scraper accepts
\* (more than 5 and fewer than 50 characters) and one it rejects
Labels == {"Web Development", "SEO"}

\* line 192: len(service) > 5 and len(service) < 50
reasonable_name(label) == label = "Web Development"

Repeat(x, n) == [i \in 1..n |-> x]

\* re.findall of 'label + percentage' gives (label, digits), of
\* 'percentage + label' gives (digits, label); the matches of the first
\* pattern come before those of the second
MatchLists ==
    {Repeat(<<"Web Development", "40">>, a) \o Repeat(<<"SEO", "40">>, b)
        \o Repeat(<<"40", "Web Development">>, c) :
        a \in 0..MaxMatchCount, b \in 0..MaxMatchCount, c \in 0..MaxMatchCount}

\* str.isdigit() on a group of a match
isdigit(x) == x = "40"

\* f"{percentage}%"
percent(x) == IF x = "40" THEN "40%" ELSE x

\* lines 321-329 (profile scraper) and 186-196 (simple scraper): the dict
\* made from a match
service_entry(match) ==
    IF isdigit(match[1])
    THEN [service |-> match[2], percentage |-> percent(match[1])]
    ELSE [service |-> match[1], percentage |-> percent(match[2])]

\* ClutchProfileScraper._extract_services, line 331: return services;
\* SimpleClutchScraper.extract_basic_info, line 198: services[:10]
returned_services(var, svcs) ==
    IF var = "simple" THEN SubSeq(svcs, 1, Min(ServicesCap, Len(svcs))) ELSE svcs

ServicesInit ==
    /\ variant \in {"profile", "simple"}
    /\ matches \in {m \in MatchLists : Len(m) <= MaxMatchCount}
    /\ mpos = 1
    /\ services = <<>>
    /\ vpc = "loop"

ServicesIdle ==
    /\ variant = "profile"
    /\ matches = <<>>
    /\ mpos = 1
    /\ services = <<>>
    /\ vpc = "idle"

\* one match of the loops of lines 318-329 (profile scraper) and 182-196
\* (simple scraper, which drops a label that is no reasonable name)
TakeMatch ==
    /\ vpc = "loop"
    /\ mpos <= Len(matches)
    /\ LET e == service_entry(matches[mpos])
       IN  services' = IF variant = "simple" /\ ~reasonable_name(e.service)
                       THEN services
                       ELSE Append(services, e)
    /\ mpos' = mpos + 1
    /\ UNCHANGED <<variant, matches, vpc>>
    /\ UNCHANGED notServicesVars

\* the list handed back once the matches are exhausted
ReturnServices ==
    /\ vpc = "loop"
    /\ mpos > Len(matches)
    /\ services' = returned_services(variant, services)
    /\ vpc' = "done"
    /\ UNCHANGED <<variant, matches, mpos>>
    /\ UNCHANGED notServicesVars

\* ============================================================ social links

\* most links on a page
MaxLinks == 3

\* _extract_social_media, lines 363-368: the keys of social_platforms, in the
\* order the dict is iterated
social_platforms == <<"linkedin", "facebook", "twitter", "instagram">>

\* lines 364-367: the alternatives of a platform's pattern
pattern(platform) ==
    CASE platform = "linkedin" -> {"linkedin.com"}
      [] platform = "facebook" -> {"facebook.com"}
      [] platform = "twitter" -> {"twitter.com", "x.com"}
      [] platform = "instagram" -> {"instagram.com"}

\* the link targets of the model
Hrefs ==
    {"https://www.linkedin.com/company/acme",
     "https://facebook.com/acme",
     "https://twitter.com/acme",
     "https://x.com/acme",
     "https://instagram.com/acme",
     "https://acme.example/contact",
     "https://facebook.com/sharer?u=https://twitter.com/acme",
     "https://linkedin.com/in/founder"}

\* the domain texts a link target holds
domains_in(href) ==
    CASE href = "https://www.linkedin.com/company/acme" -> {"linkedin.com"}
      [] href = "https://facebook.com/acme" -> {"facebook.com"}
      [] href = "https://twitter.com/acme" -> {"twitter.com"}
      [] href = "https://x.com/acme" -> {"x.com"}
      [] href = "https://instagram.com/acme" -> {"instagram.com"}
      [] href = "https://facebook.com/sharer?u=https://twitter.com/acme" ->
             {"facebook.com", "twitter.com"}
      [] href = "https://linkedin.com/in/founder" -> {"linkedin.com"}
      [] OTHER -> {}

\* line 371: soup.find_all('a', href=re.compile(pattern)), the links whose
\* href the pattern is found in, in document order
find_all(hrefs, pat) ==
    LET hit(h) == domains_in(h) \cap pat # {}
    IN  SelectSeq(hrefs, hit)

\* a choice of the last link found
pick_last(found) == found[Len(found)]

\* line 373: links[0].get('href')
pick_first(found) == found[1]

SocialInit ==
    /\ links \in SeqsUpTo(Hrefs, MaxLinks)
    /\ ppos = 1
    /\ social_media = <<>>

SocialIdle ==
    /\ links = <<>>
    /\ ppos = 0
    /\ social_media = <<>>

\* lines 370-373: one platform of the loop, with a link found for it
RecordPlatform ==
    /\ ppos \in DOMAIN social_platforms
    /\ LET platform == social_platforms[ppos]
           found == find_all(links, pattern(platform))
       IN  /\ found # <<>>
           /\ social_media' = social_media @@ (platform :> pick_first(found))
    /\ ppos' = ppos + 1
    /\ UNCHANGED links
    /\ UNCHANGED notSocialVars

\* lines 370-372: one platform of the loop, with no link found for it
SkipPlatform ==
    /\ ppos \in DOMAIN social_platforms
    /\ find_all(links, pattern(social_platforms[ppos])) = <<>>
    /\ ppos' = ppos + 1
    /\ UNCHANGED <<links, social_media>>
    /\ UNCHANGED notSocialVars

\* ======================================================== specifications

\* the batch runner
Next ==
    \/ StartBatch
    \/ SkipUrl
    \/ ScrapeUrl
    \/ SaveUrl
    \/ EndBatch
    \/ MainSave
    \/ MainExit
    \/ Interrupt
    \/ InterruptSave
    \/ Restart

Init == BatchInit /\ RetryIdle /\ FetchIdle /\ SitemapIdle /\ ExtractIdle /\ ServicesIdle
        /\ SocialIdle

Spec == Init /\ [][Next]_vars

\* the retrying sitemap fetch
RetryNext ==
    \/ AttemptSucceeds
    \/ AttemptFails
    \/ ReturnNone

InitRetry ==
    RetryInit /\ BatchIdle /\ FetchIdle /\ SitemapIdle /\ ExtractIdle /\ ServicesIdle
        /\ SocialIdle

SpecRetry == InitRetry /\ [][RetryNext]_vars

\* the page fetcher
FetchNext ==
    \/ SetupRequests
    \/ SetupSelenium
    \/ SetupSeleniumFails
    \/ GetPageContent

InitFetch ==
    FetchInit /\ BatchIdle /\ RetryIdle /\ SitemapIdle /\ ExtractIdle /\ ServicesIdle
        /\ SocialIdle

SpecFetch == InitFetch /\ [][FetchNext]_vars

\* one run of the batch runner that nothing interrupts, for any --delay
PacingNext ==
    \/ StartBatch
    \/ SkipUrl
    \/ ScrapeUrl
    \/ SaveUrl
    \/ EndBatch
    \/ MainSave
    \/ MainExit

InitPacing ==
    PacingInit /\ RetryIdle /\ FetchIdle /\ SitemapIdle /\ ExtractIdle /\ ServicesIdle
        /\ SocialIdle

SpecPacing == InitPacing /\ [][PacingNext]_vars

\* the run for one URL given with --url
SingleNext ==
    \/ SingleScrape
    \/ SingleSave

InitSingle ==
    SingleInit /\ RetryIdle /\ FetchIdle /\ SitemapIdle /\ ExtractIdle /\ ServicesIdle
        /\ SocialIdle

SpecSingle == InitSingle /\ [][SingleNext]_vars

\* the sitemap processor
SitemapNext ==
    \/ ProcessSitemap
    \/ ReturnUrls

InitSitemap ==
    SitemapInit /\ BatchIdle /\ RetryIdle /\ FetchIdle /\ ExtractIdle /\ ServicesIdle
        /\ SocialIdle

SpecSitemap == InitSitemap /\ [][SitemapNext]_vars

\* the field extractor
ExtractNext ==
    \/ ExtractName
    \/ ExtractTagline
    \/ ExtractReviews
    \/ ExtractLocation

InitExtract ==
    ExtractInit /\ BatchIdle /\ RetryIdle /\ FetchIdle /\ SitemapIdle /\ ServicesIdle
        /\ SocialIdle

SpecExtract == InitExtract /\ [][ExtractNext]_vars

\* the services extractors
ServicesNext ==
    \/ TakeMatch
    \/ ReturnServices

InitServices ==
    ServicesInit /\ BatchIdle /\ RetryIdle /\ FetchIdle /\ SitemapIdle /\ ExtractIdle
        /\ SocialIdle

SpecServices == InitServices /\ [][ServicesNext]_vars

\* the social links extractor
SocialNext ==
    \/ RecordPlatform
    \/ SkipPlatform

InitSocial ==
    SocialInit /\ BatchIdle /\ RetryIdle /\ FetchIdle /\ SitemapIdle /\ ExtractIdle
        /\ ServicesIdle

SpecSocial == InitSocial /\ [][SocialNext]_vars

\* ================================================================ claims

LedgerUrls == {results[i].url : i \in DOMAIN results}

FileUrls == {file.recs[i].url : i \in DOMAIN file.recs}

CountUrl(recs, u) == Cardinality({i \in DOMAIN recs : recs[i].url = u})

\* the records a later run can read back from the file
Readable == IF file.state = "ok" THEN file.recs ELSE <<>>

\* C1 (as claimed): once a run over the list has completed, the output file
\* holds exactly one record for every URL of the list.
C1_IdempotentResume ==
    pc = "done" =>
        \A u \in Range(all_urls) : file.state = "ok" /\ CountUrl(file.recs, u) = 1

\* C2: in every state of a batch run the in-memory ledger and the output file
\* each hold at most one record per URL, also when the input list repeats a URL.
C2_OneRecordPerUrl == NoDupUrl(results) /\ NoDupUrl(file.recs)

\* C2 witness: a list that names a URL twice has been run to the end of its
\* sub-batch, the URL was fetched by this process and is in the ledger
C2_Witness ==
    /\ pc = "mainsave"
    /\ nfetch >= 1
    /\ \E i, j \in DOMAIN batch_urls :
          i < j /\ batch_urls[i] = batch_urls[j] /\ batch_urls[i] \in LedgerUrls

\* C3: every URL of a readable output file is in the ledger of the running
\* batch, and the step that handles a URL of the ledger fetches nothing, writes
\* nothing and leaves the ledger as it is: the URL is skipped.
C3_SkipPersisted ==
    /\ [](pc \in {"loop", "save"} /\ file.state = "ok" => FileUrls \subseteq LedgerUrls)
    /\ [][(pc = "loop" /\ idx <= Len(batch_urls) /\ CurUrl \in LedgerUrls) =>
            /\ nfetch' = nfetch
            /\ file' = file
            /\ results' = results
            /\ save_errors' = save_errors
            /\ (pc' = "loop" /\ idx' = idx + 1) \/ pc' = "interrupted"]_vars

\* C3 witness: the first URL of the sub-batch was in the file the run started
\* from and has been passed without a fetch
C3_Witness ==
    /\ pc = "loop"
    /\ idx = 2
    /\ nfetch = 0
    /\ restarts = 0
    /\ file.state = "ok"
    /\ batch_urls[1] \in FileUrls
    /\ Len(results) = Len(file.recs)

\* C4 (as claimed): at any point of a run, also where it was killed, the file
\* lacks at most one record of the in-memory ledger.
C4_AtMostOneStale ==
    pc \in {"loop", "save", "mainsave", "interrupted"} =>
        Len(results) <= Len(Readable) + 1

\* C5 (as claimed): every change of the output file appends: the record
\* sequence it held before is a prefix of the one it holds after.
C5_OnlyAppends == [][IsPrefix(file.recs, file'.recs)]_vars

\* C6 (as claimed): an interrupt leaves a good output file good and with all
\* the records it had.
C6_InterruptKeepsFile ==
    [][(pc # "interrupted" /\ pc' = "interrupted" /\ file.state = "ok") =>
          (file'.state = "ok" /\ IsPrefix(file.recs, file'.recs))]_vars

\* C7 (as claimed): after a save_results that raised, the process fetches no
\* further URL.
C7_SaveFailureAborts == [][save_errors > 0 => nfetch' <= nfetch]_vars

\* C8: a fetch that fails puts the error placeholder {url, error} of its URL at
\* the end of the ledger and the loop goes on to the save and the next URL; a
\* sub-batch whose loop has ended has every one of its URLs in the ledger.
C8_FetchFailureNotFatal ==
    /\ [][(pc = "loop" /\ nfetch' = nfetch + 1 /\ last_fetch' \in {"None", "empty"}) =>
            /\ results' = Append(results, [url |-> CurUrl, kind |-> "error"])
            /\ pc' = "save"]_vars
    /\ [](pc = "mainsave" => \A i \in DOMAIN batch_urls : batch_urls[i] \in LedgerUrls)

\* C8 witness: this process fetched a URL without success, recorded the
\* placeholder and then fetched and recorded the next URL
C8_Witness ==
    /\ pc = "save"
    /\ nfetch >= 2
    /\ Len(results) >= 2
    /\ results[Len(results) - 1].kind = "error"
    /\ last_fetch = "html"
    /\ results[Len(results)].kind = "data"

NonDecreasing(s) == \A i, j \in DOMAIN s : i <= j => s[i] <= s[j]

\* C9: a fetch_sitemap_with_retry that returns None has made exactly
\* max_retries requests, and the delays it slept, in order, never decrease.
C9_RetryBound ==
    /\ NonDecreasing(sleeps)
    /\ (rpc = "returned" /\ ret = "None") => requests_made = max_retries

\* C9 witness: with the default of 3 attempts every attempt failed, the last
\* one on a good status with content that is not XML, and None was returned
\* after two sleeps
C9_Witness ==
    /\ rpc = "returned"
    /\ ret = "None"
    /\ max_retries = DefaultMaxRetries
    /\ requests_made = DefaultMaxRetries
    /\ Len(sleeps) = 2
    /\ response # <<>>
    /\ ~response[1].raised /\ response[1].status_ok
    /\ ~response[1].ctype_xml /\ ~response[1].body_xml

\* C10 (as claimed): a call of get_page_content reports failure only after
\* both the static and the rendering transport were tried for its URL.
C10_FailureAfterBothTransports ==
    \A i \in DOMAIN calls :
        calls[i].result = "None" => calls[i].tried = {"static", "rendered"}

\* C10 (amended): every call of get_page_content tries exactly one transport,
\* the rendering one exactly when the scraper still has use_selenium set and a
\* driver, the static one otherwise; a scraper that is ready and lost
\* use_selenium has its requests session (the only fallback, made once at
\* construction, is from rendering to static).
C10_OneTransportPerCall ==
    /\ \A i \in DOMAIN calls :
          /\ Cardinality(calls[i].tried) = 1
          /\ calls[i].tried = {"rendered"} <=> (use_selenium /\ driver # "None")
    /\ fpc = "ready" =>
          /\ use_selenium => driver = "chrome"
          /\ ~use_selenium => session = "session"

\* C10 witness: the static transport failed for a URL and the call returned
\* None although the rendering transport was never tried
C10_Witness ==
    \E i \in DOMAIN calls :
        /\ calls[i].tried = {"static"}
        /\ calls[i].result = "None"


\* --------------------------------------------------------------- sitemaps

\* the <sitemap><loc> references of the document a source holds
RefsOf(s) ==
    IF web[s].content # "xml" THEN {}
    ELSE IF web[s].ns_refs # <<>> THEN Range(web[s].ns_refs)
    ELSE Range(web[s].plain_refs)

\* the <url><loc> entries of the document a source holds
LeafLocs(s) ==
    IF web[s].content # "xml" THEN {}
    ELSE IF web[s].ns_urls # <<>> THEN Range(web[s].ns_urls)
    ELSE Range(web[s].plain_urls)

\* the sources reached from a set of sources by following references
RECURSIVE Closure(_)
Closure(S) ==
    LET T == S \cup UNION {RefsOf(s) : s \in S}
    IN  IF T = S THEN S ELSE Closure(T)

\* the leaf URLs of every source reached from the given list
ResolvedLeaves == UNION {LeafLocs(s) : s \in Closure(Range(sitemap_sources))}

\* some source reached from the list refers to itself, directly or through others
Cyclic ==
    \E s \in Closure(Range(sitemap_sources)) : s \in Closure(RefsOf(s))

\* C11: resolving a list in which a sitemap index refers to itself, directly
\* or through a mutual cycle, ends with the leaf URLs of every source that is
\* reached from the list.
C11_CyclicIndexResolved ==
    (spc = "done" /\ Cyclic) => sm_all_urls = ResolvedLeaves

\* C12: when resolution ends, every child sitemap an index referred to has
\* been processed as a source, and the leaf URLs of the children are in the
\* result.
C12_IndexChildrenFollowed ==
    spc = "done" =>
        /\ child_refs \subseteq Range(processed)
        /\ ResolvedLeaves \subseteq sm_all_urls

\* C13: the result is at every moment the set union of the leaf URLs of the
\* sources processed so far, and at the end the union over the set of sources
\* given, whatever their order and however often a URL or a source repeats.
C13_UnionOfSources ==
    /\ sm_all_urls = UNION {LeafLocs(processed[i]) : i \in DOMAIN processed}
    /\ spc = "done" =>
           sm_all_urls = UNION {LeafLocs(s) : s \in Range(sitemap_sources)}

\* two different sources that share a URL and each have one of their own
C13_Witness ==
    /\ spc = "done"
    /\ Len(sitemap_sources) = 2
    /\ LET a == LeafLocs(sitemap_sources[1])
           b == LeafLocs(sitemap_sources[2])
       IN  /\ a \cap b # {}
           /\ a \ b # {}
           /\ b \ a # {}
           /\ Cardinality(sm_all_urls) = 3

\* a source that gives no content or cannot be parsed
BadSource(s) == web[s].content \in {"None", "malformed"}

\* C14: a source that cannot be fetched, read or parsed is in the failure
\* list once it has been processed; at the end every source of the list has
\* been processed, in order, and the URLs of the good sources are returned.
C14_FailureRecordedNotFatal ==
    /\ \A i \in DOMAIN processed :
           BadSource(processed[i]) => processed[i] \in Range(failed_sitemaps)
    /\ spc = "done" =>
           /\ processed = sitemap_sources
           /\ \A s \in Range(sitemap_sources) :
                  ~BadSource(s) => LeafLocs(s) \subseteq sm_all_urls

\* a malformed source followed by a good one
C14_Witness ==
    /\ spc = "done"
    /\ Len(sitemap_sources) = 2
    /\ web[sitemap_sources[1]].content = "malformed"
    /\ LeafLocs(sitemap_sources[2]) # {}
    /\ failed_sitemaps = <<sitemap_sources[1]>>
    /\ sm_all_urls = LeafLocs(sitemap_sources[2])
    /\ success_count = 1


\* ------------------------------------------------------------- extraction

\* some selector of the field extracted last gave a valid value
HasValid(v) == \E k \in DOMAIN v : v[k] = "valid"

\* the first of them
FirstValid(v) ==
    CHOOSE k \in DOMAIN v : v[k] = "valid" /\ \A j \in 1..(k - 1) : v[j] # "valid"

\* C15: for each field with an ordered selector list, once the field has
\* been extracted and some selector gave a valid value, the field holds the
\* value of the first selector that gave a valid value, whatever earlier
\* selectors matched with an empty or malformed text.
C15_FirstValidWins ==
    HasValid(page) =>
        LET k == FirstValid(page)
        IN  /\ epc = "tagline" =>
                   company_data.company_name = element_text("name", k, "valid")
            /\ epc = "reviews" =>
                   company_data.tagline = element_text("tagline", k, "valid")
            /\ epc = "location" =>
                   company_data.reviews_count = review_number(k)
            /\ epc = "done" =>
                   company_data.location = element_text("location", k, "valid")

\* the last path segment of a URL: its last part that is not empty
LastSegment(url) ==
    LET k == CHOOSE i \in DOMAIN url :
                 url[i] # <<>> /\ \A j \in (i + 1)..Len(url) : url[j] = <<>>
    IN  url[k]

\* a slug in title case
TitleCase(slug) == [i \in DOMAIN slug |-> Capitalize(slug[i])]

\* C16: when no name selector gave a name other than the site's own, the
\* company name is the title-cased last path segment of the URL, and is not
\* empty.
C16_NameFromUrl ==
    (epc = "tagline" /\ ~HasValid(page)) =>
        /\ company_data.company_name = TitleCase(LastSegment(ex_url))
        /\ company_data.company_name # <<>>

\* a record whose required text fields all hold a text (reviews_count always
\* holds a number)
Populated(rec) ==
    /\ rec.url # <<>>
    /\ rec.company_name # <<>>
    /\ rec.location # <<>>

\* a record that carries a mark of being invalid, or is an error placeholder
Flagged(rec) ==
    \/ "error" \in DOMAIN rec
    \/ "valid" \in DOMAIN rec /\ rec["valid"] = FALSE

\* C17: the record extract_company_info returns has every required field
\* populated or is flagged as invalid.
C17_ValidOrFlagged ==
    epc = "done" => (Populated(company_data) \/ Flagged(company_data))

\* --------------------------------------------------------------- services

\* C18: the services list handed back holds at most 10 entries, by either
\* scraper and for any number of matches.
C18_ServicesCapped ==
    vpc = "done" => Len(services) <= ServicesCap


\* ------------------------------------------------- sub-batches, URL states

\* C19: whatever the sub-batch size, a run scrapes no URL twice (a URL
\* handled in an earlier sub-batch is skipped in a later one), and a run that
\* ends with its ledger persisted has every URL of the whole list in that
\* ledger, as a run over the list as one batch has.
C19_ChunkingTransparent ==
    /\ \A i, j \in DOMAIN fetched : fetched[i] = fetched[j] => i = j
    /\ (pc = "done" /\ file = [state |-> "ok", recs |-> results]) =>
           Range(all_urls) \subseteq LedgerUrls

\* C20: while a sub-batch is under way, every URL the worker has left behind
\* has exactly one record in the ledger and is Failed (an error placeholder)
\* or Persisted (in the readable output file, as a skipped URL is too); the
\* record being saved is the one of the URL in hand.
C20_OneTerminalStatePerUrl ==
    /\ pc = "save" =>
           /\ results # <<>>
           /\ results[Len(results)].url = CurUrl
    /\ pc = "loop" =>
           \A j \in 1..(idx - 1) :
               LET u == batch_urls[j]
               IN  /\ CountUrl(results, u) = 1
                   /\ \/ \E i \in DOMAIN results :
                             results[i].url = u /\ results[i].kind = "error"
                      \/ CountUrl(Readable, u) = 1


\* ------------------------------------------------------------ retrying fetch

\* C21: the k-th wait of a retrying fetch is the base delay of 2 seconds
\* times 2^(k-1), k-1 being the index of the attempt that failed, and there
\* are fewer waits than attempts: none follows the final attempt.
C21_BackoffFromBaseDelay ==
    /\ \A k \in DOMAIN sleeps : sleeps[k] = RetryDelay * 2 ^ (k - 1)
    /\ max_retries > 0 => Len(sleeps) <= max_retries - 1

\* a response that passes validation: a success status and XML content
Acceptable(resp) ==
    /\ ~resp.raised
    /\ resp.status_ok
    /\ resp.ctype_xml \/ resp.body_xml

\* C22: a fetch returns the text of a response only if that response has a
\* success status and is XML by its content-type or by its first bytes; it
\* returns at the first such response, so every earlier response and the
\* last response of a fetch still looping or returning None failed validation.
C22_ValidatedResponse ==
    /\ (rpc = "returned" /\ ret = "text") =>
           /\ Acceptable(response[1])
           /\ requests_made = attempt + 1
    /\ (rpc = "loop" /\ response # <<>>) => ~Acceptable(response[1])
    /\ (rpc = "returned" /\ ret = "None" /\ max_retries > 0) =>
           /\ ~Acceptable(response[1])
           /\ requests_made = max_retries

\* the second attempt is accepted on its first bytes alone
C22_Witness ==
    /\ rpc = "returned"
    /\ ret = "text"
    /\ requests_made = 2
    /\ ~response[1].ctype_xml
    /\ response[1].body_xml

\* C23: the request of attempt number a carries profile a mod 3 of the pool
\* of three, so consecutive attempts take consecutive profiles and the fourth
\* attempt takes the first profile again.
C23_HeaderRotation ==
    \A i \in DOMAIN headers_used : headers_used[i] = (i - 1) % 3

\* four attempts: the rotation has wrapped around
C23_Witness ==
    /\ Len(headers_used) = 4
    /\ headers_used = <<0, 1, 2, 0>>


\* ------------------------------------------------ sitemap parsing, counters

\* the document of the source processed last
LastDoc == web[processed[Len(processed)]]

\* C24: for a well-formed document the list returned is the list of its
\* namespace-qualified <url><loc> entries when there is at least one, and the
\* list of its unqualified entries otherwise: never entries of both forms
\* together, and the empty list for a document with no entry of either form.
C24_QualifiedPassFirst ==
    (processed # <<>> /\ LastDoc.content = "xml") =>
        /\ LastDoc.ns_urls # <<>> => last_urls = LastDoc.ns_urls
        /\ LastDoc.ns_urls = <<>> => last_urls = LastDoc.plain_urls
        /\ (LastDoc.ns_urls = <<>> /\ LastDoc.plain_urls = <<>>) => last_urls = <<>>

\* a document with entries of both forms gave the qualified ones only
C24_Witness ==
    /\ processed # <<>>
    /\ LastDoc.content = "xml"
    /\ LastDoc.ns_urls # <<>>
    /\ LastDoc.plain_urls # <<>>
    /\ last_urls = LastDoc.ns_urls

\* C29: the successes and the failures counted add up to the sources
\* processed; a source is in the failure list exactly if it gave no leaf URL,
\* a well-formed document without <url> entries and a pure sitemap index
\* included; total_urls_extracted is no less than the size of the URL set.
C29_CountersAddUp ==
    /\ success_count + Len(failed_sitemaps) = Len(processed)
    /\ \A i \in DOMAIN processed :
           processed[i] \in Range(failed_sitemaps) <=> LeafLocs(processed[i]) = {}
    /\ total_urls_extracted >= Cardinality(sm_all_urls)

\* a pure sitemap index was recorded as failed, another source succeeded, and
\* the two sources overlapped or not
C29_Witness ==
    /\ spc = "done"
    /\ Len(processed) = 2
    /\ web[processed[1]].content = "xml"
    /\ web[processed[1]].ns_refs # <<>>
    /\ processed[1] \in Range(failed_sitemaps)
    /\ success_count = 1
    /\ total_urls_extracted = 2


\* ------------------------------------------------------------------ pacing

\* C25: a fetch that is not the first of its run comes after at least one
\* wait since the fetch before it; a wait inside a sub-batch lasts the
\* configured delay and a wait at a sub-batch boundary lasts longer than
\* that; a run that fetched every URL of its list ends without a wait after
\* the last one.
C25_WaitBetweenFetches ==
    /\ (pc = "save" /\ nfetch >= 2) => gap # <<>>
    /\ \A w \in Range(gap) \cup Range(since_fetch) :
           /\ w.kind = "url" => w.secs = delay
           /\ w.kind = "batch" => w.secs > delay
    /\ (pc = "done" /\ nfetch = Len(all_urls)) => since_fetch = <<>>


\* ------------------------------------------------------------ social links

\* the link target holds the domain of the platform
OnPlatform(platform, href) ==
    CASE platform = "linkedin" -> "linkedin.com" \in domains_in(href)
      [] platform = "facebook" -> "facebook.com" \in domains_in(href)
      [] platform = "twitter" ->
             "twitter.com" \in domains_in(href) \/ "x.com" \in domains_in(href)
      [] platform = "instagram" -> "instagram.com" \in domains_in(href)

\* C26: a platform the loop has dealt with has an entry exactly if some link
\* of the page is on it, and the entry is the first such link in document
\* order, whatever the links of the other platforms are; a platform the loop
\* has not come to has no entry.
C26_FirstLinkPerPlatform ==
    \A k \in DOMAIN social_platforms :
        LET platform == social_platforms[k]
            hits == {i \in DOMAIN links : OnPlatform(platform, links[i])}
        IN  IF k < ppos /\ hits # {}
            THEN /\ platform \in DOMAIN social_media
                 /\ \E i \in hits :
                       /\ \A j \in hits : i <= j
                       /\ social_media[platform] = links[i]
            ELSE platform \notin DOMAIN social_media

\* two different links of one platform, and a platform with none
C26_Witness ==
    /\ ppos > Len(social_platforms)
    /\ Len(links) = 3
    /\ links[1] = "https://facebook.com/sharer?u=https://twitter.com/acme"
    /\ links[2] = "https://x.com/acme"
    /\ DOMAIN social_media = {"facebook", "twitter", "linkedin"}
    /\ social_media["twitter"] = links[1]
    /\ social_media["facebook"] = links[1]


\* ---------------------------------------------- failed URLs, unreadable file

\* C27: once a run has ended, every error placeholder of its ledger is in the
\* readable output file, so that a later run over the same file finds the URL
\* in its ledger and skips it.
C27_FailedUrlStaysProcessed ==
    pc = "done" =>
        \A i \in DOMAIN results :
            results[i].kind = "error" =>
                \E j \in DOMAIN Readable : Readable[j] = results[i]

\* C28: a sub-batch that starts on an output file that does not parse starts
\* with an empty ledger, and the first save of a run that found the file in
\* that state leaves it holding the ledger of the run, which has only records
\* this run made, and nothing of what the file held before.
C28_UnreadableFileReplaced ==
    [][/\ (pc = "main" /\ pc' = "loop" /\ file.state = "partial") => results' = <<>>
       /\ (pc \in {"save", "mainsave"} /\ pc' \in {"loop", "main"}
             /\ file.state = "partial" /\ save_errors = 0) =>
              /\ file' = [state |-> "ok", recs |-> results]
              /\ LedgerUrls \subseteq Range(fetched)]_vars

\* C30: a run for one URL given with --url ends with the output file holding
\* the record of that URL and no other, whatever the file held before.
C30_SingleUrlOverwrites ==
    pc = "singledone" =>
        /\ file.state = "ok"
        /\ Len(file.recs) = 1
        /\ file.recs[1].url = all_urls[1]

====
